---- MODULE Spec2Model ----
(***************************************************************************)
(* AzureAiHandler (src/unnamed/part_004, lines 1-185), the Azure AI         *)
(* Inference provider adapter: construction, deployment resolution, the    *)
(* streaming operation createMessage with its per-read decoder, the        *)
(* single-turn operation completePrompt, and the error classification of   *)
(* both catch blocks.                                                      *)
(*                                                                         *)
(* The transport stream is a sequence of tokens standing for the bytes of  *)
(* a text/event-stream body.  A frame "data: <payload>\n\n" is the token   *)
(* sequence  P1 P2 <payload tokens> NL ; the prefix "data: " is two tokens *)
(* so that a read boundary can fall inside it, a JSON object payload is    *)
(* LB MEM RB  so that a boundary can fall inside the object, and NL is the *)
(* blank line "\n\n" after the payload (white space to JSON.parse).        *)
(* The transport delivers the stream in reads of any positive length.      *)
(***************************************************************************)
EXTENDS Integers, Sequences, FiniteSets, TLC

\* ------------------------------------------------------------------ bounds

\* Longest frame sequence a backend response body holds.
MaxFrames == 3

\* Longest conversation passed to createMessage.
MaxMessages == 2

\* Most getModel calls on one handler.
MaxGetModel == 2

\* Longest frame sequence of a response whose stream fails or is abandoned.
MaxStreamFrames == 2

\* Longest search term typed into the model picker.
MaxTermLen == 2

\* ------------------------------------------------------- program constants

DEFAULT_API_VERSION == "2024-02-15-preview"
DEFAULT_MAX_TOKENS == 4096
DefaultDeploymentName == "gpt-35-turbo"
DefaultContextWindow == 16385

EndpointRequiredMsg == "Azure AI endpoint is required"
KeyRequiredMsg == "Azure AI key is required"
RateLimitMsg == "Azure AI rate limit exceeded. Please try again later."
ContentFilterMsg == "Content was flagged by Azure AI content safety filters"
CreateMessagePrefix == "Azure AI error: "
CompletePromptPrefix == "Azure AI completion error: "
NoStreamMsg == "Failed to get chat completions stream"
BadStatusMsg == "Failed to get chat completions: HTTP "
ContentFilterCode == "ContentFilterError"
MeshHeader == "x-ms-model-mesh-model-name"

\* An optional field that is not set (JavaScript's undefined).
Absent == "<undefined>"

\* JavaScript truthiness of an optional string: undefined and "" are falsy.
Truthy(s) == s # Absent /\ s # ""

\* ------------------------------------------------------------ configuration

Endpoints == {Absent, "", "https://test-resource.inference.azure.com"}
Keys == {Absent, "", "test-key"}
ModelIds == {Absent, "azure-gpt-35", "custom-model"}

NoDeployments == [m \in {} |-> [name |-> "", apiVersion |-> "", modelMeshName |-> Absent]]

\* azureAiDeployments: per-model overrides keyed by model id.
DeploymentMaps ==
    { NoDeployments,
      [m \in {"custom-model"} |->
          [name |-> "my-custom-deployment", apiVersion |-> "2024-05-01-preview",
           modelMeshName |-> "my-custom-model"]] }

OptionsSet ==
    [azureAiEndpoint : Endpoints, azureAiKey : Keys,
     apiModelId : ModelIds, azureAiDeployments : DeploymentMaps]

NoOptions ==
    [azureAiEndpoint |-> Absent, azureAiKey |-> Absent,
     apiModelId |-> Absent, azureAiDeployments |-> NoDeployments]

\* A constructor that defers the key check to the first call.
ConstructorDefersKey(options) ==
    IF ~Truthy(options.azureAiEndpoint)
    THEN [threw |-> TRUE, message |-> EndpointRequiredMsg, client |-> FALSE]
    ELSE [threw |-> FALSE, message |-> "", client |-> TRUE]

\* The constructor: the outcome of `new AzureAiHandler(options)`.
Constructor(options) ==
    IF ~Truthy(options.azureAiEndpoint)
    THEN [threw |-> TRUE, message |-> EndpointRequiredMsg, client |-> FALSE]
    ELSE IF ~Truthy(options.azureAiKey)
    THEN [threw |-> TRUE, message |-> KeyRequiredMsg, client |-> FALSE]
    ELSE [threw |-> FALSE, message |-> "", client |-> TRUE]

\* A resolution that takes the model id before looking for an override.
GetDeploymentConfigModelIdFirst(options) ==
    IF ~Truthy(options.apiModelId)
    THEN [name |-> DefaultDeploymentName, apiVersion |-> DEFAULT_API_VERSION,
          modelMeshName |-> Absent]
    ELSE [name |-> options.apiModelId, apiVersion |-> DEFAULT_API_VERSION,
          modelMeshName |-> Absent]

\* getDeploymentConfig: override, else the model id, else the default.
GetDeploymentConfig(options) ==
    LET modelId == options.apiModelId IN
    IF ~Truthy(modelId)
    THEN [name |-> DefaultDeploymentName, apiVersion |-> DEFAULT_API_VERSION,
          modelMeshName |-> Absent]
    ELSE IF modelId \in DOMAIN options.azureAiDeployments
    THEN LET customConfig == options.azureAiDeployments[modelId] IN
         [name |-> customConfig.name,
          apiVersion |-> IF Truthy(customConfig.apiVersion)
                         THEN customConfig.apiVersion ELSE DEFAULT_API_VERSION,
          modelMeshName |-> customConfig.modelMeshName]
    ELSE [name |-> modelId, apiVersion |-> DEFAULT_API_VERSION,
          modelMeshName |-> Absent]

\* A getModel that reports the resolved deployment name as the id.
GetModelDeploymentName(options) ==
    [id |-> GetDeploymentConfig(options).name,
     info |-> [maxTokens |-> DEFAULT_MAX_TOKENS,
               contextWindow |-> DefaultContextWindow,
               supportsPromptCache |-> TRUE]]

\* getModel
GetModel(options) ==
    [id |-> IF Truthy(options.apiModelId) THEN options.apiModelId
            ELSE DefaultDeploymentName,
     info |-> [maxTokens |-> DEFAULT_MAX_TOKENS,
               contextWindow |-> DefaultContextWindow,
               supportsPromptCache |-> TRUE]]

\* Headers that always hold the Model-Mesh header, also with no name to send.
RequestHeadersAlways(deployment) ==
    [name |-> MeshHeader, value |-> deployment.modelMeshName]

\* The headers of a request: the Model-Mesh header or undefined.
RequestHeaders(deployment) ==
    IF Truthy(deployment.modelMeshName)
    THEN [name |-> MeshHeader, value |-> deployment.modelMeshName]
    ELSE [name |-> Absent, value |-> Absent]

\* ------------------------------------------------------------- wire format

\* A JSON object payload's members, as the decoder reads them:
\*   choices (absent, or a list of choices with an optional delta.content)
\*   usage   (absent, or prompt_tokens and completion_tokens).
NoBody ==
    [hasChoices |-> FALSE, choices |-> <<>>, hasUsage |-> FALSE,
     prompt_tokens |-> 0, completion_tokens |-> 0]

Choice(hasDelta, content) == [hasDelta |-> hasDelta, content |-> content]

JsonBody(hasChoices, choices, hasUsage, pt, ct) ==
    [hasChoices |-> hasChoices, choices |-> choices, hasUsage |-> hasUsage,
     prompt_tokens |-> pt, completion_tokens |-> ct]

\* Tokens of the byte stream.
Tok(t, body) == [t |-> t, body |-> body]
P1 == Tok("da", NoBody)           \* first half of the prefix "data: "
P2 == Tok("ta: ", NoBody)         \* second half of the prefix
NL == Tok("\\n\\n", NoBody)       \* the blank line that ends a frame
LB == Tok("{", NoBody)
RB == Tok("}", NoBody)
MEM(body) == Tok("members", body) \* the members between the braces
GARBAGE == Tok("{oops", NoBody)   \* a payload that is not JSON
DONE == Tok("[DONE]", NoBody)     \* the sentinel payload

\* The frames a backend sends.
Frame(kind, body) == [kind |-> kind, body |-> body]
SentinelFrame == Frame("done", NoBody)
MalformedFrame == Frame("bad", NoBody)
HelloFrame ==
    Frame("json", JsonBody(TRUE, <<Choice(TRUE, <<"Hello">>)>>, FALSE, 0, 0))
WorldUsageFrame ==
    Frame("json", JsonBody(TRUE, <<Choice(TRUE, <<" world">>)>>, TRUE, 10, 2))
UsageOnlyFrame == Frame("json", JsonBody(TRUE, <<>>, TRUE, 3, 0))
UsageNoChoicesFrame == Frame("json", JsonBody(FALSE, <<>>, TRUE, 3, 1))

ValidFrames ==
    { HelloFrame, WorldUsageFrame, UsageOnlyFrame, UsageNoChoicesFrame }
FrameSet == ValidFrames \cup { MalformedFrame, SentinelFrame }

Payload(frame) ==
    CASE frame.kind = "json" -> <<LB, MEM(frame.body), RB>>
      [] frame.kind = "bad" -> <<GARBAGE>>
      [] OTHER -> <<DONE>>

\* "data: " payload "\n\n"
Encode(frame) == <<P1, P2>> \o Payload(frame) \o <<NL>>

RECURSIVE EncodeAll(_)
EncodeAll(frames) ==
    IF frames = <<>> THEN <<>>
    ELSE Encode(Head(frames)) \o EncodeAll(Tail(frames))

SentinelChunk == <<P1, P2, DONE, NL>>     \* "data: [DONE]\n\n"

\* ---------------------------------------------------------------- decoder

\* chunkStr.replace("data: ", ""): the first occurrence only.
RECURSIVE StripFirstPrefix(_)
StripFirstPrefix(s) ==
    IF Len(s) < 2 THEN s
    ELSE IF s[1] = P1 /\ s[2] = P2 THEN SubSeq(s, 3, Len(s))
    ELSE <<s[1]>> \o StripFirstPrefix(Tail(s))

\* JSON text may be surrounded by white space.
RECURSIVE TrimLeft(_)
TrimLeft(s) == IF s # <<>> /\ Head(s) = NL THEN TrimLeft(Tail(s)) ELSE s

RECURSIVE TrimRight(_)
TrimRight(s) ==
    IF s # <<>> /\ s[Len(s)] = NL THEN TrimRight(SubSeq(s, 1, Len(s) - 1)) ELSE s

\* JSON.parse: the object between the braces, or a SyntaxError.
JsonParse(s) ==
    LET t == TrimRight(TrimLeft(s)) IN
    IF Len(t) = 3 /\ t[1] = LB /\ t[2].t = "members" /\ t[3] = RB
    THEN [ok |-> TRUE, body |-> t[2].body]
    ELSE [ok |-> FALSE, body |-> NoBody]

\* The chunks of the output sequence.
TextChunk(text) ==
    [type |-> "text", text |-> text, inputTokens |-> 0, outputTokens |-> 0]
UsageChunk(inTok, outTok) ==
    [type |-> "usage", text |-> <<>>, inputTokens |-> inTok, outputTokens |-> outTok]

\* A loop body that reports the usage before the content.
YieldsOfUsageFirst(data) ==
    IF ~data.ok \/ ~data.body.hasChoices THEN <<>>
    ELSE LET body == data.body
             hasContent == /\ body.choices # <<>>
                           /\ body.choices[1].hasDelta
                           /\ body.choices[1].content # <<>>
         IN (IF body.hasUsage
             THEN <<UsageChunk(body.prompt_tokens, body.completion_tokens)>>
             ELSE <<>>)
            \o (IF hasContent THEN <<TextChunk(body.choices[1].content)>> ELSE <<>>)

\* The try block of the loop body on a parsed payload: data.choices[0] of a
\* payload without a choices list is a TypeError, caught like a SyntaxError.
YieldsOf(data) ==
    IF ~data.ok \/ ~data.body.hasChoices THEN <<>>
    ELSE LET body == data.body
             hasContent == /\ body.choices # <<>>
                           /\ body.choices[1].hasDelta
                           /\ body.choices[1].content # <<>>
         IN (IF hasContent THEN <<TextChunk(body.choices[1].content)>> ELSE <<>>)
            \o (IF body.hasUsage
                THEN <<UsageChunk(body.prompt_tokens, body.completion_tokens)>>
                ELSE <<>>)

\* One iteration of `for await (const chunk of stream)`.
ProcessChunk(chunkStr) ==
    IF chunkStr = SentinelChunk
    THEN [return |-> TRUE, yields |-> <<>>]
    ELSE [return |-> FALSE, yields |-> YieldsOf(JsonParse(StripFirstPrefix(chunkStr)))]

\* ------------------------------------------------------------------ errors

\* A thrown value: an Error instance or a plain object, with the properties
\* the catch blocks read.  status 0: the value has no status property.
Thrown(isError, status, bodyCode, code, message) ==
    [isError |-> isError, status |-> status, bodyCode |-> bodyCode,
     code |-> code, message |-> message]

\* new Error(message)
NewError(message) == Thrown(TRUE, 0, Absent, Absent, message)

NoError == Thrown(FALSE, 0, Absent, Absent, <<>>)

Statuses == {200, 400, 422, 429, 500}
ErrorCodes == {Absent, ContentFilterCode, "InvalidRequest"}

\* What the transport client may reject with.
TransportFailures ==
    { Thrown(isError, status, bodyCode, Absent, <<"backend failure">>) :
        isError \in BOOLEAN, status \in (Statuses \ {200}) \cup {0},
        bodyCode \in ErrorCodes }
    \cup { Thrown(TRUE, 0, Absent, "ECONNRESET", <<"socket hang up">>) }

\* The catch block of createMessage and of completePrompt.
CatchBlock(prefix, error) ==
    IF error.isError
    THEN IF error.status = 429
         THEN NewError(<<RateLimitMsg>>)
         ELSE IF error.status = 400 /\ error.bodyCode = ContentFilterCode
         THEN NewError(<<ContentFilterMsg>>)
         ELSE NewError(<<prefix>> \o error.message)
    ELSE error

\* ----------------------------------------------------------------- backend

\* The frame sequences of a response body.
FrameSeqs == UNION { [1..n -> FrameSet] : n \in 0..MaxFrames }

\* The choices of a non-streaming response body.
Message(hasMessage, content) == [hasMessage |-> hasMessage, content |-> content]
ChoiceLists ==
    { <<>>, <<Message(FALSE, Absent)>>, <<Message(TRUE, Absent)>>,
      <<Message(TRUE, "")>>, <<Message(TRUE, "test response")>> }

\* What the backend does with one request: the client rejects with a thrown
\* value, or resolves with a response.
Backend(mode, failure, status, hasBody, frames, errorCode, choices) ==
    [mode |-> mode, failure |-> failure, status |-> status, hasBody |-> hasBody,
     frames |-> frames, errorCode |-> errorCode, choices |-> choices]

NoBackend == Backend("none", NoError, 0, FALSE, <<>>, Absent, <<>>)

Rejections ==
    { Backend("throw", f, 0, FALSE, <<>>, Absent, <<>>) : f \in TransportFailures }

StreamResponses ==
    { Backend("response", NoError, 200, TRUE, fr, Absent, <<>>) : fr \in FrameSeqs }
    \cup { Backend("response", NoError, st, hb, fr, Absent, <<>>) :
             st \in Statuses, hb \in BOOLEAN, fr \in {<<>>, <<HelloFrame>>} }

PromptResponses ==
    { Backend("response", NoError, 200, TRUE, <<>>, Absent, ch) : ch \in ChoiceLists }
    \cup { Backend("response", NoError, st, TRUE, <<>>, code, <<>>) :
             st \in Statuses \ {200}, code \in ErrorCodes }

\* isUnexpected(response): the response's status is not the expected 200.
IsUnexpected(response) == response.status # 200

\* response.body.error as thrown by completePrompt: a plain object whose
\* code and message are its own properties.
BodyError(response) ==
    Thrown(FALSE, 0, Absent, response.errorCode, <<"backend error body">>)

\* An extraction without the `|| ""` fallback.
FirstContentUnguarded(choices) ==
    IF choices # <<>> /\ choices[1].hasMessage
    THEN choices[1].content ELSE Absent

\* response.body.choices[0]?.message?.content || ""
FirstContent(choices) ==
    IF choices # <<>> /\ choices[1].hasMessage /\ Truthy(choices[1].content)
    THEN choices[1].content ELSE ""

\* Checks of the body only, with no look at the status.
CheckResponseIgnoresStatus(backend) ==
    IF ~backend.hasBody THEN NewError(<<NoStreamMsg>>) ELSE NoError

\* The checks of createMessage between the response and the loop: the Error
\* thrown for a missing body or a status other than 200, else NoError.
CheckResponse(backend) ==
    IF ~backend.hasBody THEN NewError(<<NoStreamMsg>>)
    ELSE IF backend.status # 200
    THEN NewError(<<BadStatusMsg, ToString(backend.status)>>)
    ELSE NoError

\* ---------------------------------------------------------------- messages

\* The content blocks of a conversation message.
TextBlock(text) == [type |-> "text", text |-> text]
ImageBlock == [type |-> "image", text |-> Absent]

\* The conversation messages a caller passes (Anthropic.Messages.MessageParam).
MessageParam(role, content) == [role |-> role, content |-> content]
UserHello == MessageParam("user", <<TextBlock("Hello")>>)
AssistantHi == MessageParam("assistant", <<TextBlock("Hi"), TextBlock("there")>>)
UserImage == MessageParam("user", <<ImageBlock, TextBlock("What is this?")>>)
MessageParams == { UserHello, AssistantHi, UserImage }

\* The conversations of at most MaxMessages messages.
Conversations == UNION { [1..n -> MessageParams] : n \in 0..MaxMessages }

SystemPrompts == { "system prompt", "" }

\* The text parts of a message's content, in block order.
RECURSIVE TextParts(_)
TextParts(content) ==
    IF content = <<>> THEN <<>>
    ELSE (IF Head(content).type = "text" THEN <<Head(content).text>> ELSE <<>>)
         \o TextParts(Tail(content))

\* MessageConverter on one message: the role, and the content blocks the
\* descriptor supports (text), in order.
ConvertMessage(message) ==
    [role |-> message.role, content |-> TextParts(message.content)]

\* convertToOpenAiMessages: one request message per conversation message,
\* in order.
ConvertToOpenAiMessages(messages) ==
    [i \in DOMAIN messages |-> ConvertMessage(messages[i])]

\* A request that sends the system prompt after the conversation.
ChatMessagesSystemLast(systemPrompt, messages) ==
    ConvertToOpenAiMessages(messages)
        \o <<[role |-> "system", content |-> <<systemPrompt>>]>>

\* chatMessages of createMessage.
ChatMessages(systemPrompt, messages) ==
    <<[role |-> "system", content |-> <<systemPrompt>>]>>
        \o ConvertToOpenAiMessages(messages)

\* The prompt of the completePrompt calls, and the messages of its request.
Prompt == "test prompt"
PromptMessages(prompt) == <<[role |-> "user", content |-> <<prompt>>]>>

\* ------------------------------------------------------------------- state

VARIABLES
    handler,    \* the outcome of the constructor: options, client, or the throw
    call,       \* the operation in progress on the handler, and its outcome
    other,      \* a second call on the same handler, not running at the moment
    models,     \* the results of the getModel calls, in order
    requests,   \* the requests posted to the client, in order
    picker      \* the state of the AzureAiModelPicker component

vars == <<handler, call, other, models, requests, picker>>

NoDeployment == [name |-> "", apiVersion |-> "", modelMeshName |-> Absent]

\* The arguments of a createMessage call.
Args(systemPrompt, messages) == [systemPrompt |-> systemPrompt, messages |-> messages]
NoArgs == Args(Absent, <<>>)

\* A call: its position (pc), its locals, what it yielded (out), what it
\* raised (error) or returned (result); atYield: it is suspended at a yield of
\* the loop, the consumer holding the chunk; closed: the transport stream was
\* destroyed before its end.
Call(op, pc, deployment, backend, pos, out, error, result) ==
    [op |-> op, pc |-> pc, deployment |-> deployment, backend |-> backend,
     pos |-> pos, out |-> out, error |-> error, result |-> result,
     args |-> NoArgs, atYield |-> FALSE, closed |-> FALSE]

NoCall == Call("none", "idle", NoDeployment, NoBackend, 0, <<>>, NoError, Absent)

Request(op, messages, stream, maxTokens, headers) ==
    [op |-> op, path |-> "/chat/completions", messages |-> messages,
     stream |-> stream, max_tokens |-> maxTokens, temperature |-> 0,
     headers |-> headers]

\* The argument of post() in createMessage and in completePrompt.
StreamRequest(deployment, systemPrompt, messages) ==
    Request("createMessage", ChatMessages(systemPrompt, messages), TRUE,
            DEFAULT_MAX_TOKENS, RequestHeaders(deployment))

PromptRequest(deployment, prompt) ==
    Request("completePrompt", PromptMessages(prompt), FALSE, 0,
            RequestHeaders(deployment))

\* The picker's state: the extension state it reads (apiModelId,
\* azureAiModels sorted as modelIds), its useState values, the result list
\* it rendered; event is the last event delivered to it and changedBy the
\* event that last called handleModelChange.  Ids and search terms are
\* sequences of letters, <<>> the empty string.
Picker(mounted, modelIds, apiModelId, modelSearchResults) ==
    [mounted |-> mounted, modelIds |-> modelIds, apiModelId |-> apiModelId,
     searchTerm |-> apiModelId, isDropdownVisible |-> FALSE,
     selectedIndex |-> -1, modelSearchResults |-> modelSearchResults,
     event |-> "mount", changedBy |-> "none"]

NoPicker == Picker(FALSE, <<>>, <<>>, <<>>)

Init ==
    /\ picker = NoPicker
    /\ handler = [state |-> "none", options |-> NoOptions, message |-> "",
                  client |-> FALSE]
    /\ call = NoCall
    /\ other = NoCall
    /\ models = <<>>
    /\ requests = <<>>

\* new AzureAiHandler(options)
Construct(options) ==
    /\ handler.state = "none"
    /\ LET r == Constructor(options) IN
       handler' = [state |-> IF r.threw THEN "threw" ELSE "constructed",
                   options |-> options, message |-> r.message,
                   client |-> r.client]
    /\ UNCHANGED <<call, other, models, requests, picker>>

\* A getModel that looks the model up with a request.
GetModelCallFetches ==
    /\ handler.state = "constructed"
    /\ Len(models) < MaxGetModel
    /\ models' = Append(models, GetModel(handler.options))
    /\ requests' = Append(requests,
           Request("getModel", <<>>, FALSE, 0, [name |-> Absent, value |-> Absent]))
    /\ UNCHANGED <<handler, call, other, picker>>

\* A getModel that stores the id it reports in the options.
GetModelCallStoresId ==
    /\ handler.state = "constructed"
    /\ Len(models) < MaxGetModel
    /\ models' = Append(models, GetModel(handler.options))
    /\ handler' = [handler EXCEPT
                     !.options.apiModelId = GetModel(handler.options).id]
    /\ UNCHANGED <<call, other, requests, picker>>

\* handler.getModel()
GetModelCall ==
    /\ handler.state = "constructed"
    /\ Len(models) < MaxGetModel
    /\ models' = Append(models, GetModel(handler.options))
    /\ UNCHANGED <<handler, call, other, requests, picker>>

\* The bytes of the response body of the call in progress.
Wire == EncodeAll(call.backend.frames)

\* An invocation that posts the request before the first pull.
CreateMessageEager(systemPrompt, messages) ==
    /\ handler.state = "constructed"
    /\ call.op = "none"
    /\ call' = [NoCall EXCEPT !.op = "createMessage", !.pc = "suspendedStart",
                              !.args = Args(systemPrompt, messages)]
    /\ requests' = Append(requests,
           Request("createMessage", ChatMessages(systemPrompt, messages), TRUE,
                   DEFAULT_MAX_TOKENS,
                   RequestHeaders(GetDeploymentConfig(handler.options))))
    /\ UNCHANGED <<handler, other, models, picker>>

\* handler.createMessage(systemPrompt, messages): the call of an async
\* generator function returns the generator, suspended at its start; no
\* statement of the body has run.
CreateMessage(systemPrompt, messages) ==
    /\ handler.state = "constructed"
    /\ call.op = "none"
    /\ call' = [NoCall EXCEPT !.op = "createMessage", !.pc = "suspendedStart",
                              !.args = Args(systemPrompt, messages)]
    /\ UNCHANGED <<handler, other, models, requests, picker>>

\* createMessage from the first pull up to the loop: resolve the deployment,
\* post the streaming request, await the response, check body and status.
CreateMessageOpen(backend) ==
    /\ call.op = "createMessage" /\ call.pc = "suspendedStart"
    /\ LET deployment == GetDeploymentConfig(handler.options)
           opened(pc, error) ==
               [Call("createMessage", pc, deployment, backend, 0, <<>>, error,
                     Absent) EXCEPT !.args = call.args]
           raised(e) == opened("raised", CatchBlock(CreateMessagePrefix, e))
       IN /\ requests' = Append(requests,
                 StreamRequest(deployment, call.args.systemPrompt, call.args.messages))
          /\ call' =
               IF backend.mode = "throw" THEN raised(backend.failure)
               ELSE IF CheckResponse(backend) # NoError
               THEN raised(CheckResponse(backend))
               ELSE opened("streaming", NoError)
    /\ UNCHANGED <<handler, other, models, picker>>

\* A read whose chunks also land in the other call's output, as with a
\* chunk list kept on the handler.
ReadChunkSharedOutput(k) ==
    /\ call.op = "createMessage" /\ call.pc = "streaming"
    /\ LET wire == Wire
           chunkStr == SubSeq(wire, call.pos + 1, call.pos + k)
           r == ProcessChunk(chunkStr)
       IN /\ call.pos + k <= Len(wire)
          /\ call' = [call EXCEPT
                        !.pos = call.pos + k,
                        !.out = call.out \o r.yields,
                        !.pc = IF r.return THEN "done" ELSE "streaming",
                        !.atYield = (r.yields # <<>>)]
          /\ other' = IF other.op = "createMessage"
                      THEN [other EXCEPT !.out = other.out \o r.yields]
                      ELSE other
    /\ UNCHANGED <<handler, models, requests, picker>>

\* One transport read of k bytes and the loop body on it.
ReadChunk(k) ==
    /\ call.op = "createMessage" /\ call.pc = "streaming"
    /\ LET wire == Wire
           chunkStr == SubSeq(wire, call.pos + 1, call.pos + k)
           r == ProcessChunk(chunkStr)
       IN /\ call.pos + k <= Len(wire)
          /\ call' = [call EXCEPT
                        !.pos = call.pos + k,
                        !.out = call.out \o r.yields,
                        !.pc = IF r.return THEN "done" ELSE "streaming",
                        !.atYield = (r.yields # <<>>)]
    /\ UNCHANGED <<handler, other, models, requests, picker>>

\* An end of transport at which the loop goes on waiting for a sentinel.
StreamEndAwaitsSentinel ==
    /\ call.op = "createMessage" /\ call.pc = "streaming"
    /\ call.pos = Len(Wire)
    /\ call' = [call EXCEPT !.atYield = FALSE]
    /\ UNCHANGED <<handler, other, models, requests, picker>>

\* The transport stream ends: the loop and the generator finish.
StreamEnd ==
    /\ call.op = "createMessage" /\ call.pc = "streaming"
    /\ call.pos = Len(Wire)
    /\ call' = [call EXCEPT !.pc = "done", !.atYield = FALSE]
    /\ UNCHANGED <<handler, other, models, requests, picker>>

\* The transport stream fails while the loop awaits its next read: the
\* for-await throws the failure into the catch block.
StreamFails(failure) ==
    /\ call.op = "createMessage" /\ call.pc = "streaming"
    /\ call' = [call EXCEPT
                  !.pc = "raised", !.atYield = FALSE,
                  !.backend.failure = failure,
                  !.error = CatchBlock(CreateMessagePrefix, failure)]
    /\ UNCHANGED <<handler, other, models, requests, picker>>

\* A return() that finishes the generator and leaves the stream open.
GeneratorReturnLeavesStreamOpen ==
    /\ call.op = "createMessage"
    /\ \/ call.pc = "suspendedStart"
       \/ call.pc = "streaming" /\ call.atYield
    /\ call' = [call EXCEPT !.pc = "returned", !.atYield = FALSE]
    /\ UNCHANGED <<handler, other, models, requests, picker>>

\* The consumer abandons the sequence: generator.return(), as a `break` out
\* of its for-await does.  The generator is suspended at its start or at a
\* yield inside the loop; the return completion leaves the for-await, which
\* closes the stream's iterator (the stream is destroyed), and passes no
\* catch block.
GeneratorReturn ==
    /\ call.op = "createMessage"
    /\ \/ call.pc = "suspendedStart"
       \/ call.pc = "streaming" /\ call.atYield
    /\ call' = [call EXCEPT !.pc = "returned", !.atYield = FALSE,
                            !.closed = (call.pc = "streaming")]
    /\ UNCHANGED <<handler, other, models, requests, picker>>

\* completePrompt: resolve the deployment, post, await, extract the text.
CompletePrompt(backend) ==
    /\ handler.state = "constructed"
    /\ call.op = "none"
    /\ LET deployment == GetDeploymentConfig(handler.options)
           raised(e) == Call("completePrompt", "raised", deployment, backend, 0,
                             <<>>, CatchBlock(CompletePromptPrefix, e), Absent)
       IN /\ requests' = Append(requests, PromptRequest(deployment, Prompt))
          /\ call' =
               IF backend.mode = "throw" THEN raised(backend.failure)
               ELSE IF IsUnexpected(backend) THEN raised(BodyError(backend))
               ELSE Call("completePrompt", "done", deployment, backend, 0,
                         <<>>, NoError, FirstContent(backend.choices))
    /\ UNCHANGED <<handler, other, models, picker>>

\* The scheduler turns to the other call: between two awaits of one call the
\* steps of the other may run.
Switch ==
    /\ handler.state = "constructed"
    /\ call.op # "none" \/ other.op # "none"
    /\ call' = other
    /\ other' = call
    /\ UNCHANGED <<handler, models, requests, picker>>

\* The handler with one call, over every backend of at most MaxFrames frames.
Next ==
    \/ \E options \in OptionsSet : Construct(options)
    \/ CreateMessage("system prompt", <<>>)
    \/ \E backend \in Rejections \cup StreamResponses : CreateMessageOpen(backend)
    \/ \E k \in 1..(Len(Wire) - call.pos) : ReadChunk(k)
    \/ StreamEnd
    \/ \E backend \in Rejections \cup PromptResponses : CompletePrompt(backend)

Spec == Init /\ [][Next]_vars

\* Backends of the smaller specifications.
RateLimitRejection ==
    Backend("throw", Thrown(TRUE, 429, Absent, Absent, <<"backend failure">>),
            0, FALSE, <<>>, Absent, <<>>)
ServerErrorResponse ==
    Backend("response", NoError, 500, TRUE, <<HelloFrame>>, Absent, <<>>)
HelloStream ==
    Backend("response", NoError, 200, TRUE, <<HelloFrame, SentinelFrame>>, Absent, <<>>)
UsageStream ==
    Backend("response", NoError, 200, TRUE, <<WorldUsageFrame>>, Absent, <<>>)
TestCompletion ==
    Backend("response", NoError, 200, TRUE, <<>>, Absent,
            <<Message(TRUE, "test response")>>)

\* The handler as its client sees it: getModel between the other
\* operations, and createMessage over every conversation of at most
\* MaxMessages messages.
ClientNext ==
    \/ \E options \in OptionsSet : Construct(options)
    \/ GetModelCall
    \/ \E systemPrompt \in SystemPrompts, messages \in Conversations :
          CreateMessage(systemPrompt, messages)
    \/ \E backend \in {RateLimitRejection, ServerErrorResponse, HelloStream} :
          CreateMessageOpen(backend)
    \/ \E k \in 1..(Len(Wire) - call.pos) : ReadChunk(k)
    \/ StreamEnd
    \/ \E backend \in {RateLimitRejection, TestCompletion} : CompletePrompt(backend)

ClientSpec == Init /\ [][ClientNext]_vars

\* The response bodies of at most MaxStreamFrames frames.
ShortFrameSeqs == UNION { [1..n -> FrameSet] : n \in 0..MaxStreamFrames }

ShortStreamResponses ==
    { Backend("response", NoError, 200, TRUE, fr, Absent, <<>>) : fr \in ShortFrameSeqs }
    \cup { Backend("response", NoError, st, hb, fr, Absent, <<>>) :
             st \in Statuses, hb \in BOOLEAN, fr \in {<<>>, <<HelloFrame>>} }

\* What an open transport stream may fail with: a connection reset, an
\* Error with a status, a value that is no Error instance.
StreamFailures ==
    { Thrown(TRUE, 0, Absent, "ECONNRESET", <<"socket hang up">>),
      Thrown(TRUE, 429, Absent, Absent, <<"backend failure">>),
      Thrown(FALSE, 500, Absent, Absent, <<"backend failure">>) }

\* One createMessage call whose transport stream may fail at any read and
\* whose consumer may abandon it, over the response bodies of at most
\* MaxStreamFrames frames.
StreamNext ==
    \/ \E options \in OptionsSet : Construct(options)
    \/ CreateMessage("system prompt", <<>>)
    \/ \E backend \in Rejections \cup ShortStreamResponses : CreateMessageOpen(backend)
    \/ \E k \in 1..(Len(Wire) - call.pos) : ReadChunk(k)
    \/ StreamEnd
    \/ \E failure \in StreamFailures : StreamFails(failure)
    \/ GeneratorReturn

StreamSpec == Init /\ [][StreamNext]_vars

\* One pull of the consumer on the sequence of a createMessage call: the
\* generator runs from its start to the loop, or through one read, or to its
\* end at the end of the transport stream.
Pull ==
    \/ \E backend \in {RateLimitRejection} \cup ShortStreamResponses :
          CreateMessageOpen(backend)
    \/ \E k \in 1..(Len(Wire) - call.pos) : ReadChunk(k)
    \/ StreamEnd

\* One createMessage call whose consumer keeps pulling (`for await` with no
\* break) and whose transport stream delivers its reads and then ends.
PullingNext ==
    \/ \E options \in OptionsSet : Construct(options)
    \/ CreateMessage("system prompt", <<>>)
    \/ Pull

PullingSpec == Init /\ [][PullingNext]_vars /\ WF_vars(Pull)

\* The options of the tests: the default deployment, and a model id with a
\* deployment override.
ConcurrentOptions ==
    { options \in OptionsSet :
        /\ Truthy(options.azureAiEndpoint) /\ Truthy(options.azureAiKey)
        /\ \/ options.apiModelId = Absent /\ options.azureAiDeployments = NoDeployments
           \/ options.apiModelId = "custom-model"
              /\ options.azureAiDeployments # NoDeployments }

\* Two createMessage calls on one handler, their steps interleaved in every
\* order, each with a backend response and a transport stream of its own.
ConcurrentNext ==
    \/ \E options \in ConcurrentOptions : Construct(options)
    \/ \E messages \in {<<>>, <<UserHello>>} : CreateMessage("system prompt", messages)
    \/ \E backend \in {RateLimitRejection, ServerErrorResponse, HelloStream, UsageStream} :
          CreateMessageOpen(backend)
    \/ \E k \in 1..(Len(Wire) - call.pos) : ReadChunk(k)
    \/ StreamEnd
    \/ StreamFails(Thrown(TRUE, 0, Absent, "ECONNRESET", <<"socket hang up">>))
    \/ Switch

ConcurrentSpec == Init /\ [][ConcurrentNext]_vars

\* ------------------------------------------------------- stream properties

\* The output of the loop when the transport delivers one frame per read,
\* as the test "handles streaming responses correctly" does.
RECURSIVE FramedOutput(_)
FramedOutput(frames) ==
    IF frames = <<>> THEN <<>>
    ELSE LET r == ProcessChunk(Encode(Head(frames))) IN
         IF r.return THEN <<>> ELSE r.yields \o FramedOutput(Tail(frames))

\* The frames before the first sentinel frame.
RECURSIVE BeforeSentinel(_)
BeforeSentinel(frames) ==
    IF frames = <<>> \/ Head(frames) = SentinelFrame THEN <<>>
    ELSE <<Head(frames)>> \o BeforeSentinel(Tail(frames))

\* choices[0].delta.content of a frame, "" when the frame has none.
DeltaContent(frame) ==
    IF /\ frame.kind = "json" /\ frame.body.hasChoices
       /\ frame.body.choices # <<>> /\ frame.body.choices[1].hasDelta
    THEN frame.body.choices[1].content ELSE <<>>

RECURSIVE ConcatContent(_)
ConcatContent(frames) ==
    IF frames = <<>> THEN <<>>
    ELSE DeltaContent(Head(frames)) \o ConcatContent(Tail(frames))

RECURSIVE ConcatText(_)
ConcatText(chunks) ==
    IF chunks = <<>> THEN <<>>
    ELSE (IF Head(chunks).type = "text" THEN Head(chunks).text ELSE <<>>)
         \o ConcatText(Tail(chunks))

UsageCount(chunks) == Cardinality({i \in DOMAIN chunks : chunks[i].type = "usage"})

\* Frames whose payload is a JSON object with a choices list.
WellFormedFrames == { HelloFrame, WorldUsageFrame, UsageOnlyFrame }

\* A valid framed stream: well-formed frames, then the sentinel frame.
ValidStream(frames) ==
    /\ frames # <<>>
    /\ frames[Len(frames)] = SentinelFrame
    /\ \A i \in 1..(Len(frames) - 1) : frames[i] \in WellFormedFrames

Streamed == call.op = "createMessage" /\ call.pc = "done"

\* C1 (chunking invariance): for a valid framed stream the chunk sequence of
\* createMessage is the same whatever the split into transport reads; here:
\* the output of any split equals the output of one read per frame.
ChunkingInvariance ==
    (Streamed /\ ValidStream(call.backend.frames))
        => call.out = FramedOutput(call.backend.frames)

\* C2 (content round-trip): the concatenated text of the text chunks equals
\* the concatenated delta content of the frames before the sentinel.
ContentRoundTrip ==
    Streamed => ConcatText(call.out) = ConcatContent(BeforeSentinel(call.backend.frames))

\* The round trip of C2 under one read per frame.
FramedContentRoundTrip ==
    ConcatText(FramedOutput(call.backend.frames))
        = ConcatContent(BeforeSentinel(call.backend.frames))

\* C3 (at most one usage): a call yields at most one usage chunk, and a
\* usage chunk is the last chunk of the finished sequence.
AtMostOneUsage ==
    call.op = "createMessage" =>
        /\ UsageCount(call.out) <= 1
        /\ (Streamed /\ UsageCount(call.out) = 1)
               => call.out[Len(call.out)].type = "usage"

\* C4 (malformed-frame tolerance): a frame that is not JSON between two
\* valid frames raises no error and the chunks of the two valid frames are
\* emitted once each, in order.
MalformedFrameTolerance ==
    \A a, b \in WellFormedFrames :
        (call.op = "createMessage" /\ call.pc \in {"done", "raised"}
           /\ call.backend.status = 200 /\ call.backend.hasBody
           /\ call.backend.frames = <<a, MalformedFrame, b>>)
        => (call.pc = "done" /\ call.out = FramedOutput(<<a>>) \o FramedOutput(<<b>>))

\* The tolerance of C4 under one read per frame.
FramedMalformedFrameTolerance ==
    \A a, b \in WellFormedFrames :
        FramedOutput(<<a, MalformedFrame, b>>) = FramedOutput(<<a>>) \o FramedOutput(<<b>>)

\* The sentinel frame has been received in full.
RECURSIVE SentinelEnd(_, _)
SentinelEnd(frames, from) ==
    IF frames = <<>> THEN -1
    ELSE IF Head(frames) = SentinelFrame THEN from + Len(Encode(SentinelFrame))
    ELSE SentinelEnd(Tail(frames), from + Len(Encode(Head(frames))))

SentinelReceived ==
    /\ call.op = "createMessage"
    /\ call.backend.mode = "response" /\ call.backend.status = 200
    /\ SentinelEnd(call.backend.frames, 0) >= 0
    /\ call.pos >= SentinelEnd(call.backend.frames, 0)

\* C5 (sentinel termination): once the sentinel frame has been received the
\* call yields no further chunk and raises no error.
SentinelTermination ==
    [][SentinelReceived => (call'.out = call.out /\ call'.pc # "raised")]_vars

\* The termination of C5 under one read per frame: nothing is decoded
\* after the sentinel.
FramedSentinelTermination ==
    FramedOutput(call.backend.frames) = FramedOutput(BeforeSentinel(call.backend.frames))

\* ------------------------------------------------ configuration properties

\* C6 (deployment precedence): the deployment a call resolves is the
\* explicit override of the configured model id when there is one, else the
\* model id as the deployment name, else (no model id) the default.
DeploymentPrecedence ==
    (call.op # "none" /\ call.backend # NoBackend) =>
        LET modelId == handler.options.apiModelId
            overrides == handler.options.azureAiDeployments
        IN /\ (Truthy(modelId) /\ modelId \in DOMAIN overrides)
                => /\ call.deployment.name = overrides[modelId].name
                   /\ call.deployment.modelMeshName = overrides[modelId].modelMeshName
           /\ (Truthy(modelId) /\ modelId \notin DOMAIN overrides)
                => call.deployment.name = modelId
           /\ ~Truthy(modelId) => call.deployment.name = DefaultDeploymentName

\* A call on a handler whose model id has an override resolved to it.
DeploymentOverrideUsed ==
    /\ call.op # "none"
    /\ handler.options.apiModelId = "custom-model"
    /\ "custom-model" \in DOMAIN handler.options.azureAiDeployments
    /\ call.deployment.name = "my-custom-deployment"

\* C7 (eager construction validation): a missing or empty endpoint throws
\* the endpoint message, an endpoint with a missing or empty key throws the
\* key message, both before the client exists and before any request; a
\* handler exists only with both fields.
EagerConstructionValidation ==
    LET endpoint == handler.options.azureAiEndpoint
        key == handler.options.azureAiKey
    IN /\ handler.state = "threw" =>
            /\ ~Truthy(endpoint) \/ ~Truthy(key)
            /\ ~Truthy(endpoint) => handler.message = EndpointRequiredMsg
            /\ (Truthy(endpoint) /\ ~Truthy(key)) => handler.message = KeyRequiredMsg
            /\ ~handler.client
       /\ handler.state = "constructed" =>
            (Truthy(endpoint) /\ Truthy(key) /\ handler.client)
       /\ handler.state # "constructed" => (requests = <<>> /\ call = NoCall)

\* The constructor rejected an endpoint with an empty key.
KeyMissingRejected ==
    /\ handler.state = "threw"
    /\ Truthy(handler.options.azureAiEndpoint)
    /\ handler.options.azureAiKey = ""
    /\ handler.message = KeyRequiredMsg

\* -------------------------------------------------------- error properties

\* The status and the content-safety code a backend failure carries.
FailureStatus(backend) ==
    IF backend.mode = "throw" THEN backend.failure.status ELSE backend.status
FailureCode(backend) ==
    IF backend.mode = "throw" THEN backend.failure.bodyCode ELSE backend.errorCode

\* C8 (rate-limit classification): a backend failure with status 429,
\* thrown or returned as the response's status, is raised as the rate-limit
\* error by both operations.
RateLimitClassification ==
    (call.op # "none" /\ FailureStatus(call.backend) = 429
         /\ (call.backend.mode = "throw" => call.backend.failure.isError))
        => (call.pc = "raised" /\ call.error = NewError(<<RateLimitMsg>>))

\* C9 (content-filter classification): a backend failure with status 400
\* and code ContentFilterError, an Error instance or a plain object, is
\* raised as the content-filter error by both operations.
ContentFilterClassification ==
    (call.op # "none" /\ FailureStatus(call.backend) = 400
         /\ FailureCode(call.backend) = ContentFilterCode)
        => (call.pc = "raised" /\ call.error = NewError(<<ContentFilterMsg>>))

\* The five classes in the order of the classification rule.
ClaimedClass(backend) ==
    IF FailureStatus(backend) = 429 THEN "RateLimited"
    ELSE IF FailureStatus(backend) = 400 /\ FailureCode(backend) = ContentFilterCode
    THEN "ContentFiltered"
    ELSE IF FailureStatus(backend) = 422 THEN "ValidationFailed"
    ELSE IF backend.mode = "throw" /\ backend.failure.status = 0
    THEN "TransientNetwork"
    ELSE "Fatal"

\* The class of a raised value, read off what the catch blocks raise.
ClassOf(error) ==
    IF ~error.isError THEN "Unclassified"
    ELSE IF error.message = <<RateLimitMsg>> THEN "RateLimited"
    ELSE IF error.message = <<ContentFilterMsg>> THEN "ContentFiltered"
    ELSE "Fatal"

\* C10 (classification precedence): every failure is raised with the
\* earliest matching class of rate limit, content safety, request
\* validation, network failure without response, anything else.
ClassificationPrecedence ==
    (call.op # "none" /\ call.pc = "raised")
        => ClassOf(call.error) = ClaimedClass(call.backend)

\* The precedence the catch blocks do implement, for a thrown Error
\* instance: rate limit, then content filter, then the wrapped message.
ThrownErrorPrecedence ==
    (call.op # "none" /\ call.backend.mode = "throw" /\ call.backend.failure.isError)
        => /\ call.pc = "raised"
           /\ ClassOf(call.error) =
                IF call.backend.failure.status = 429 THEN "RateLimited"
                ELSE IF /\ call.backend.failure.status = 400
                        /\ call.backend.failure.bodyCode = ContentFilterCode
                THEN "ContentFiltered"
                ELSE "Fatal"

\* A call whose backend failed: the client rejected, or resolved with a
\* response that is not a success (for createMessage also one without body).
CallFailed ==
    /\ call.op \in {"createMessage", "completePrompt"}
    /\ \/ call.backend.mode = "throw"
       \/ /\ call.backend.mode = "response"
          /\ \/ call.backend.status # 200
             \/ call.op = "createMessage" /\ ~call.backend.hasBody

\* C11 (no swallowed failure): every failure of a call reaches the caller
\* as one raised, classified error; it is not yielded as a chunk and the
\* call does not end as if it had succeeded.
NoSwallowedFailure ==
    CallFailed =>
        /\ call.pc = "raised"
        /\ call.out = <<>>
        /\ ClassOf(call.error) # "Unclassified"

\* The part of C11 the catch blocks do implement: every failure is raised,
\* with no chunk yielded and no result returned.
FailureAlwaysRaised ==
    CallFailed =>
        (call.pc = "raised" /\ call.out = <<>> /\ call.result = Absent
            /\ call.error # NoError)

\* C12 (non-success status at connection time): a response to the streaming
\* request whose status is not 200 makes createMessage raise an Error from
\* its catch block with no frame read and no chunk yielded, whatever the
\* response body holds.
NonSuccessAtConnection ==
    (call.op = "createMessage" /\ call.backend.mode = "response"
         /\ call.backend.status # 200)
        => /\ call.pc = "raised"
           /\ call.pos = 0 /\ call.out = <<>>
           /\ call.error.isError
           /\ ClassOf(call.error) \in {"RateLimited", "ContentFiltered", "Fatal"}

\* A response of status 500 whose body holds a well-formed frame was raised.
NonSuccessWithFrames ==
    /\ call.op = "createMessage" /\ call.pc = "raised"
    /\ call.backend.mode = "response" /\ call.backend.status = 500
    /\ call.backend.hasBody /\ call.backend.frames = <<HelloFrame>>

\* C13 (completePrompt returns a string): on a response of status 200
\* completePrompt returns the first choice's message content when that is a
\* non-empty string, and "" for an empty choices list, a first choice
\* without message, and a message with empty or absent content.
CompletePromptReturnsString ==
    (call.op = "completePrompt" /\ call.backend.mode = "response"
         /\ call.backend.status = 200)
        => LET choices == call.backend.choices IN
           /\ call.pc = "done" /\ call.error = NoError
           /\ call.result # Absent
           /\ call.result =
                IF choices = <<>> THEN ""
                ELSE IF ~choices[1].hasMessage THEN ""
                ELSE IF choices[1].content \in {Absent, ""} THEN ""
                ELSE choices[1].content

\* completePrompt returned "" for a response with an empty choices list.
EmptyChoicesReturnEmpty ==
    /\ call.op = "completePrompt" /\ call.pc = "done"
    /\ call.backend.choices = <<>> /\ call.result = ""

\* ------------------------------------------------------- client properties

\* The descriptor of every model id: this revision has no catalog.
DefaultDescriptor ==
    [maxTokens |-> DEFAULT_MAX_TOKENS, contextWindow |-> DefaultContextWindow,
     supportsPromptCache |-> TRUE]

\* The requests the calls made so far account for.
RequestsOfCalls ==
    IF call.op = "completePrompt" \/ (call.op = "createMessage" /\ call.backend # NoBackend)
    THEN 1 ELSE 0

\* C14 (getModel is deterministic and never fails): every getModel call on
\* a handler, before, between and after the other operations, returns the
\* same result, whose info is the default descriptor for an absent and for
\* any configured model id, and getModel issues no request.
GetModelDeterministic ==
    /\ \A i, j \in DOMAIN models : models[i] = models[j]
    /\ \A i \in DOMAIN models : models[i].info = DefaultDescriptor
    /\ \A i \in DOMAIN requests : requests[i].op \in {"createMessage", "completePrompt"}
    /\ Len(requests) = RequestsOfCalls

\* getModel was called before and after a finished createMessage call.
GetModelAroundCall ==
    /\ Len(models) = 2
    /\ call.op = "createMessage" /\ call.pc = "done"
    /\ requests # <<>> /\ requests[1].headers.name = Absent
    /\ handler.options.apiModelId = "azure-gpt-35"

\* C15 (getModel reports the configured model id): the id is apiModelId when
\* that is set, also when it names a deployment of the user's, and
\* "gpt-35-turbo" when it is not set; info.contextWindow is 16385.
GetModelReportsConfiguredId ==
    \A i \in DOMAIN models :
        LET modelId == handler.options.apiModelId IN
        /\ Truthy(modelId) => models[i].id = modelId
        /\ ~Truthy(modelId) => models[i].id = "gpt-35-turbo"
        /\ models[i].info.contextWindow = 16385

\* getModel on a handler whose model id has a deployment override.
GetModelOfCustomDeployment ==
    /\ models # <<>>
    /\ handler.options.apiModelId = "custom-model"
    /\ "custom-model" \in DOMAIN handler.options.azureAiDeployments
    /\ models[1].id = "custom-model"

\* C19 (request message order): the messages of a createMessage request
\* are the system prompt as a message of role system, then one message per
\* conversation message, in the conversation's order, each with the role
\* and the text of its conversation message.
RequestMessageOrder ==
    \A i \in DOMAIN requests :
        requests[i].op = "createMessage" =>
            LET sent == requests[i].messages
                messages == call.args.messages
            IN /\ Len(sent) = 1 + Len(messages)
               /\ sent[1].role = "system"
               /\ sent[1].content = <<call.args.systemPrompt>>
               /\ \A j \in DOMAIN messages :
                     /\ sent[j + 1].role = messages[j].role
                     /\ sent[j + 1].content = TextParts(messages[j].content)

\* A request was sent for a conversation of two different messages.
TwoMessageRequestSent ==
    /\ call.op = "createMessage" /\ call.args.messages = <<UserHello, AssistantHi>>
    /\ requests # <<>> /\ Len(requests[1].messages) = 3
    /\ requests[1].messages[3].role = "assistant"

\* ---------------------------------------------------- call-level properties

RECURSIVE FramesReceived(_, _)
FramesReceived(frames, pos) ==
    IF frames = <<>> \/ Len(Encode(Head(frames))) > pos THEN <<>>
    ELSE <<Head(frames)>>
         \o FramesReceived(Tail(frames), pos - Len(Encode(Head(frames))))

\* The transport stream of the call failed after the connection was open.
MidStreamFailed ==
    /\ call.op = "createMessage" /\ call.pc = "raised"
    /\ call.backend.mode = "response" /\ call.backend.failure # NoError

\* C18 (mid-stream failure): a transport failure after some chunks were
\* yielded is raised as a classified error, and the chunks yielded before
\* it are exactly those of the frames received before it.
MidStreamFailure ==
    (MidStreamFailed /\ call.out # <<>>)
        => /\ ClassOf(call.error) # "Unclassified"
           /\ call.out = FramedOutput(FramesReceived(call.backend.frames, call.pos))

\* The part of C18 the catch block does implement: a failure that is an
\* Error instance is raised as an Error of the three classes, and the
\* failure itself yields nothing and reads nothing.
MidStreamErrorRaised ==
    [][(call.pc = "streaming" /\ call'.pc = "raised") =>
          /\ call'.out = call.out /\ call'.pos = call.pos
          /\ call'.backend.failure.isError =>
                ClassOf(call'.error) \in {"RateLimited", "ContentFiltered", "Fatal"}]_vars

\* C20 (one connection per call, opened lazily): a createMessage call has
\* posted nothing before its first pull and exactly one request after it,
\* to /chat/completions with stream = true, whatever the call's outcome.
OnePostPerCall ==
    call.op = "createMessage" =>
        IF call.backend = NoBackend
        THEN call.pc \in {"suspendedStart", "returned"} /\ requests = <<>>
        ELSE /\ call.pc \notin {"suspendedStart"}
             /\ Len(requests) = 1
             /\ requests[1].op = "createMessage"
             /\ requests[1].path = "/chat/completions"
             /\ requests[1].stream = TRUE

\* A call whose request was rejected has posted one request.
RejectedCallPostedOnce ==
    /\ call.op = "createMessage" /\ call.pc = "raised"
    /\ call.backend.mode = "throw" /\ Len(requests) = 1

\* What a call alone can have yielded after reading the first pos bytes of
\* its stream, over every split of those bytes into reads; return: the last
\* read was the sentinel.
RECURSIVE RunsUpTo(_, _, _)
RunsUpTo(wire, pos, table) ==      \* table[j + 1]: the runs after j bytes
    IF Len(table) > pos THEN table[pos + 1]
    ELSE LET n == Len(table)
             after == UNION { LET r == ProcessChunk(SubSeq(wire, j + 1, n)) IN
                              { [out |-> p.out \o r.yields, return |-> r.return] :
                                  p \in { q \in table[j + 1] : ~q.return } } :
                              j \in 0..(n - 1) }
         IN RunsUpTo(wire, pos, Append(table, after))

Runs(wire, pos) == RunsUpTo(wire, pos, << { [out |-> <<>>, return |-> FALSE] } >>)

\* The state of a createMessage call is one the call reaches when it runs
\* alone on its own arguments, response and stream.
RunsAlone(c) ==
    LET wire == EncodeAll(c.backend.frames) IN
    IF c.backend = NoBackend
    THEN c.pc = "suspendedStart" /\ c.out = <<>> /\ c.error = NoError
    ELSE /\ c.deployment = GetDeploymentConfig(handler.options)
         /\ IF c.backend.mode = "throw"
            THEN /\ c.pc = "raised" /\ c.out = <<>>
                 /\ c.error = CatchBlock(CreateMessagePrefix, c.backend.failure)
            ELSE IF CheckResponse(c.backend) # NoError
            THEN /\ c.pc = "raised" /\ c.out = <<>>
                 /\ c.error = CatchBlock(CreateMessagePrefix, CheckResponse(c.backend))
            ELSE /\ \E r \in Runs(wire, c.pos) :
                      /\ r.out = c.out
                      /\ r.return => c.pc = "done"
                      /\ c.pc = "done" => (r.return \/ c.pos = Len(wire))
                 /\ c.pc \in {"streaming", "done", "raised"}
                 /\ c.pc = "raised" <=> c.backend.failure # NoError
                 /\ c.error = IF c.pc = "raised"
                              THEN CatchBlock(CreateMessagePrefix, c.backend.failure)
                              ELSE NoError

\* C16 (concurrent calls are independent): in every interleaving of two
\* createMessage calls on one handler each call is in a state it reaches
\* alone on its own stream, each opened call has posted its own request,
\* and the handler holds what the constructor stored and nothing else.
ConcurrentCallsIndependent ==
    /\ \A c \in {call, other} : c.op = "createMessage" => RunsAlone(c)
    /\ \A c \in {call, other} :
          (c.op = "createMessage" /\ c.backend # NoBackend) =>
              \E i \in DOMAIN requests :
                  requests[i].messages = ChatMessages(c.args.systemPrompt, c.args.messages)
    /\ Len(requests) = Cardinality({i \in 1..2 :
                            LET c == IF i = 1 THEN call ELSE other IN
                            c.op = "createMessage" /\ c.backend # NoBackend})
    /\ handler.state = "constructed" =>
          handler = [state |-> "constructed", options |-> handler.options,
                     message |-> "", client |-> TRUE]

\* Two calls with different streams, both part-way, each with its own chunk.
TwoCallsMidStream ==
    /\ call.op = "createMessage" /\ other.op = "createMessage"
    /\ call.pc = "streaming" /\ other.pc = "streaming"
    /\ call.backend = HelloStream /\ other.backend = UsageStream
    /\ call.out = <<TextChunk(<<"Hello">>)>> /\ call.pos < Len(Wire)
    /\ other.out = <<TextChunk(<<" world">>), UsageChunk(10, 2)>>
    /\ call.args # other.args

\* ------------------------------------------------------ decoder properties

\* C21 (frame buffering): on a stream of well-formed frames, whenever the
\* bytes read so far end on a frame boundary, the chunks yielded are those
\* of the frames received, each once and in frame order, whether a frame
\* came in one read, split over several, or with other frames in one read.
FrameBuffering ==
    LET frames == call.backend.frames
        received == FramesReceived(frames, call.pos)
    IN (/\ call.op = "createMessage" /\ call.pc \in {"streaming", "done"}
        /\ \A i \in DOMAIN frames : frames[i] \in WellFormedFrames
        /\ call.pos = Len(EncodeAll(received)))
           => call.out = FramedOutput(received)

\* The chunks a frame stands for: its content delta, then its usage report.
ChunksOfFrame(frame) ==
    IF frame.kind # "json" THEN <<>>
    ELSE (IF DeltaContent(frame) # <<>> THEN <<TextChunk(DeltaContent(frame))>> ELSE <<>>)
         \o (IF frame.body.hasUsage
             THEN <<UsageChunk(frame.body.prompt_tokens, frame.body.completion_tokens)>>
             ELSE <<>>)

RECURSIVE ChunksOfFrames(_)
ChunksOfFrames(frames) ==
    IF frames = <<>> THEN <<>>
    ELSE ChunksOfFrame(Head(frames)) \o ChunksOfFrames(Tail(frames))

\* a is b with some elements left out.
RECURSIVE IsSubsequence(_, _)
IsSubsequence(a, b) ==
    IF a = <<>> THEN TRUE
    ELSE IF b = <<>> THEN FALSE
    ELSE IF Head(a) = Head(b) THEN IsSubsequence(Tail(a), Tail(b))
    ELSE IsSubsequence(a, Tail(b))

\* C22 (emission order): the chunks yielded so far are, in this order,
\* chunks of the frames of the stream in arrival order, a frame giving at
\* most one text chunk and at most one usage chunk, the text chunk first.
EmissionOrder ==
    call.op = "createMessage" =>
        IsSubsequence(call.out, ChunksOfFrames(call.backend.frames))

\* The stream of the streaming test was read to its sentinel with the
\* three chunks the test expects.
TestStreamEmitted ==
    /\ Streamed
    /\ call.backend.frames = <<HelloFrame, WorldUsageFrame, SentinelFrame>>
    /\ call.out = <<TextChunk(<<"Hello">>), TextChunk(<<" world">>), UsageChunk(10, 2)>>

\* The read of this step is exactly the frame i of the stream.
ReadsFrame(i) ==
    LET frames == call.backend.frames IN
    /\ call.op = "createMessage" /\ call.pc = "streaming"
    /\ call.pos = Len(EncodeAll(SubSeq(frames, 1, i - 1)))
    /\ call'.pos = call.pos + Len(Encode(frames[i]))

\* C23 (usage extraction): a read that is exactly one frame whose JSON
\* payload has a usage field yields a usage chunk with the payload's
\* prompt_tokens and completion_tokens, whatever its choices are.
UsageExtraction ==
    [][\A i \in DOMAIN call.backend.frames :
          LET frame == call.backend.frames[i] IN
          (ReadsFrame(i) /\ frame.kind = "json" /\ frame.body.hasUsage)
              => /\ Len(call'.out) > Len(call.out)
                 /\ call'.out[Len(call'.out)] =
                      UsageChunk(frame.body.prompt_tokens, frame.body.completion_tokens)]_vars

\* The extraction of C23 for the payloads that have a choices list, empty
\* or not, with or without a content delta.
UsageExtractionWithChoices ==
    [][\A i \in DOMAIN call.backend.frames :
          LET frame == call.backend.frames[i] IN
          (ReadsFrame(i) /\ frame.kind = "json" /\ frame.body.hasUsage
               /\ frame.body.hasChoices)
              => /\ Len(call'.out) > Len(call.out)
                 /\ call'.out[Len(call'.out)] =
                      UsageChunk(frame.body.prompt_tokens, frame.body.completion_tokens)]_vars

\* ------------------------------------------------------ request properties

\* The options the constructor accepts.
ConstructibleOptions == { options \in OptionsSet : ~Constructor(options).threw }

\* The request the call of requests[i] posts on a handler with options.
RequestWith(options, i) ==
    IF requests[i].op = "createMessage"
    THEN StreamRequest(GetDeploymentConfig(options),
                       call.args.systemPrompt, call.args.messages)
    ELSE PromptRequest(GetDeploymentConfig(options), Prompt)

\* C24 (the resolved deployment selects the backend call): the request of
\* createMessage and of completePrompt differs from the request the same
\* call posts under any configuration that resolves to another deployment
\* name or another API version.
DeploymentSelectsRequest ==
    \A i \in DOMAIN requests, options \in ConstructibleOptions :
        LET mine == GetDeploymentConfig(handler.options)
            theirs == GetDeploymentConfig(options)
        IN (mine.name # theirs.name \/ mine.apiVersion # theirs.apiVersion)
               => requests[i] # RequestWith(options, i)

\* The part of the deployment the requests do carry: configurations whose
\* deployments differ in modelMeshName post different requests.
MeshNameSelectsRequest ==
    \A i \in DOMAIN requests, options \in ConstructibleOptions :
        LET mine == GetDeploymentConfig(handler.options)
            theirs == GetDeploymentConfig(options)
        IN /\ requests[i] = RequestWith(handler.options, i)
           /\ (mine.modelMeshName # theirs.modelMeshName)
               => requests[i] # RequestWith(options, i)

\* C25 (Model-Mesh header): a request of createMessage or completePrompt
\* carries the header x-ms-model-mesh-model-name with the modelMeshName of
\* the deployment the call resolved when that deployment has one, and no
\* headers (undefined) when it has none.
MeshHeaderSent ==
    (call.op \in {"createMessage", "completePrompt"} /\ call.backend # NoBackend)
        => /\ Len(requests) = 1
           /\ requests[1].headers =
                IF call.deployment.modelMeshName \in {Absent, ""}
                THEN [name |-> Absent, value |-> Absent]
                ELSE [name |-> "x-ms-model-mesh-model-name",
                      value |-> call.deployment.modelMeshName]

\* completePrompt on a Model-Mesh deployment sent the header.
MeshHeaderOnPrompt ==
    /\ call.op = "completePrompt"
    /\ call.deployment.modelMeshName = "my-custom-model"
    /\ requests[1].headers.value = "my-custom-model"

\* What createMessage raises for a backend that fails at connection: the
\* rejection, or the Error of its own response checks, through its catch.
CreateMessageRaises(backend) ==
    CatchBlock(CreateMessagePrefix,
               IF backend.mode = "throw" THEN backend.failure
               ELSE CheckResponse(backend))

\* What completePrompt raises for the same backend: the rejection, or the
\* response's body.error, through its catch.
CompletePromptRaises(backend) ==
    CatchBlock(CompletePromptPrefix,
               IF backend.mode = "throw" THEN backend.failure
               ELSE BodyError(backend))

\* A call that failed at connection on a raw backend failure: a rejection,
\* or a response with a body and a status other than 200.
RawFailure ==
    /\ call.op \in {"createMessage", "completePrompt"}
    /\ call.pc = "raised" /\ call.pos = 0
    /\ \/ call.backend.mode = "throw"
       \/ /\ call.backend.mode = "response"
          /\ call.backend.hasBody /\ call.backend.status # 200

\* C26 (same failure, same class): what a call raised for a raw backend
\* failure has the class of what the other operation raises for that same
\* failure.
SameFailureSameClass ==
    RawFailure
        => /\ call.error = IF call.op = "createMessage"
                           THEN CreateMessageRaises(call.backend)
                           ELSE CompletePromptRaises(call.backend)
           /\ ClassOf(CreateMessageRaises(call.backend))
                = ClassOf(CompletePromptRaises(call.backend))

\* For a rejection of the client the two operations do raise the same class.
SameRejectionSameClass ==
    (RawFailure /\ call.backend.mode = "throw")
        => /\ call.error = IF call.op = "createMessage"
                           THEN CreateMessageRaises(call.backend)
                           ELSE CompletePromptRaises(call.backend)
           /\ ClassOf(CreateMessageRaises(call.backend))
                = ClassOf(CompletePromptRaises(call.backend))

\* The value that enters the catch block of a call that failed at
\* connection.
Caught ==
    IF call.backend.mode = "throw" THEN call.backend.failure
    ELSE IF call.op = "createMessage" THEN CheckResponse(call.backend)
    ELSE BodyError(call.backend)

\* msg holds part as a run of consecutive pieces.
Contains(msg, part) ==
    \E i \in 0..(Len(msg) - Len(part)) : SubSeq(msg, i + 1, i + Len(part)) = part

\* A failure with no response: the client rejected with a value that has
\* no status and the code of a socket error.
NetworkFailure(backend) ==
    /\ backend.mode = "throw"
    /\ backend.failure.status = 0 /\ backend.failure.code # Absent

\* What the fallback branch raises for a server failure.
FallbackClass ==
    ClassOf(CatchBlock(CreateMessagePrefix,
                       Thrown(TRUE, 500, Absent, Absent, <<"backend failure">>)))

\* The failures that are not rate-limited, content-filtered or a
\* validation failure keep their message when raised.
FallbackKeepsMessage ==
    (RawFailure /\ ClaimedClass(call.backend) \in {"TransientNetwork", "Fatal"})
        => Contains(call.error.message, Caught.message)

\* C27 (fallback class): a failure that is not rate-limited,
\* content-filtered or a validation failure is raised with its message
\* kept, and a failure with no response (timeout, connection reset) is
\* raised with a class other than the fallback class.
FallbackAndNetworkClasses ==
    /\ FallbackKeepsMessage
    /\ (RawFailure /\ NetworkFailure(call.backend) /\ call.backend.failure.isError)
          => ClassOf(call.error) # FallbackClass

\* C28 (configuration frozen): once the handler is constructed no step of
\* createMessage, completePrompt or getModel, successful or failing,
\* changes its options or its client, and the deployment a call resolved
\* is the one the options resolve to before and after every step.
ConfigurationFrozen ==
    [][handler.state = "constructed"
         => /\ handler'.options = handler.options
            /\ handler'.client = handler.client
            /\ handler'.state = "constructed"
            /\ call'.backend # NoBackend
                 => /\ call'.deployment = GetDeploymentConfig(handler.options)
                    /\ call'.deployment = GetDeploymentConfig(handler'.options)]_vars

\* A failed completePrompt between getModel calls on a handler with the
\* default model.
FailedCallBetweenGetModels ==
    /\ handler.state = "constructed"
    /\ ~Truthy(handler.options.apiModelId)
    /\ call.op = "completePrompt" /\ call.pc = "raised"
    /\ Len(models) = MaxGetModel

\* A sequence that is pulled from its start reaches its end.
SequenceEnds ==
    (call.op = "createMessage" /\ call.pc = "suspendedStart")
        ~> (call.op = "createMessage" /\ call.pc \in {"done", "raised"})

\* Without a sentinel frame the sequence ends normally at the end of the
\* transport stream.
EndsNormallyWithoutSentinel ==
    (/\ call.op = "createMessage" /\ call.pc = "streaming"
     /\ call.pos = Len(Wire)
     /\ \A i \in DOMAIN call.backend.frames : call.backend.frames[i] # SentinelFrame)
        ~> (call.pc = "done" /\ call.error = NoError)

\* C29 (finite chunk sequence): a consumer that keeps pulling the sequence
\* of a createMessage call over a transport stream that delivers its reads
\* and ends reaches the end of the sequence, normally or with an error;
\* with no sentinel frame received the sequence ends normally at the end
\* of the transport stream.
FiniteChunkSequence == SequenceEnds /\ EndsNormallyWithoutSentinel

\* A stream of frames with no sentinel among them was read to its end and
\* the sequence is done.
DoneWithoutSentinel ==
    /\ call.op = "createMessage" /\ call.pc = "done"
    /\ call.backend.frames # <<>>
    /\ \A i \in DOMAIN call.backend.frames : call.backend.frames[i] # SentinelFrame
    /\ call.pos = Len(Wire)

\* ------------------------------------------------------------ model picker

Letters == {"a", "b"}
Rank(letter) == IF letter = "a" THEN 1 ELSE 2

\* a.localeCompare(b) < 0
RECURSIVE LocaleLess(_, _)
LocaleLess(a, b) ==
    IF b = <<>> THEN FALSE
    ELSE IF a = <<>> THEN TRUE
    ELSE IF Head(a) # Head(b) THEN Rank(Head(a)) < Rank(Head(b))
    ELSE LocaleLess(Tail(a), Tail(b))

\* The model lists of the extension state, as the backend reported them.
AzureAiModelLists ==
    { <<>>, <<<<"a", "b">>>>, <<<<"b">>, <<"a", "b">>, <<"a">>>> }

\* The model ids the configuration may hold when the picker mounts.
ConfiguredModelIds == { <<>>, <<"a", "b">>, <<"b", "b">> }

\* What a user may type into the search field.
SearchTerms == UNION { [1..n -> Letters] : n \in 0..MaxTermLen }

\* modelIds: azureAiModels sorted with localeCompare.
SortedModelIds(azureAiModels) == SortSeq(azureAiModels, LocaleLess)

\* Fzf's match: the letters of the term occur in the item in this order.
RECURSIVE FuzzyMatch(_, _)
FuzzyMatch(term, item) ==
    IF term = <<>> THEN TRUE
    ELSE IF item = <<>> THEN FALSE
    ELSE IF Head(term) = Head(item) THEN FuzzyMatch(Tail(term), Tail(item))
    ELSE FuzzyMatch(term, Tail(item))

\* The lists that hold each element of a set once.
Orderings(set) ==
    { list \in [1..Cardinality(set) -> set] :
        \A i, j \in DOMAIN list : list[i] = list[j] => i = j }

\* modelSearchResults, as ids: every item for an empty term, else the
\* items fzf.find matches, in the order of its scores (any order here).
ModelSearchResults(modelIds, searchTerm) ==
    IF searchTerm = <<>> THEN {modelIds}
    ELSE Orderings({ modelIds[i] : i \in { j \in DOMAIN modelIds :
                                              FuzzyMatch(searchTerm, modelIds[j]) } })

\* handleModelChange(newModelId) on picker state p, called by event.
HandleModelChange(p, newModelId, event) ==
    [p EXCEPT !.apiModelId = newModelId, !.searchTerm = newModelId,
              !.changedBy = event]

\* The render after an event took p to q, and its effects: the search
\* term follows a differing model id of the configuration; a changed
\* search term gives a new result list and resets selectedIndex.
Rerendered(p, q) ==
    LET synced == IF q.apiModelId # <<>> /\ q.apiModelId # q.searchTerm
                  THEN [q EXCEPT !.searchTerm = q.apiModelId] ELSE q
    IN IF synced.searchTerm = p.searchTerm THEN {synced}
       ELSE { [synced EXCEPT !.selectedIndex = -1, !.modelSearchResults = results] :
                results \in ModelSearchResults(p.modelIds, synced.searchTerm) }

\* The component mounts on an extension state.
Mount(apiModelId, azureAiModels) ==
    /\ ~picker.mounted
    /\ \E results \in ModelSearchResults(SortedModelIds(azureAiModels), apiModelId) :
          picker' = Picker(TRUE, SortedModelIds(azureAiModels), apiModelId, results)
    /\ UNCHANGED <<handler, call, other, models, requests>>

PickerKeys == {"ArrowDown", "ArrowUp", "Enter", "Escape", "Tab"}

\* An ArrowDown that moves on without looking at the result list.
HandleKeyDownUnclamped(key) ==
    /\ picker.mounted
    /\ LET p == [picker EXCEPT !.event = key]
           after ==
             IF ~p.isDropdownVisible THEN p
             ELSE IF key = "ArrowDown"
             THEN [p EXCEPT !.selectedIndex = p.selectedIndex + 1]
             ELSE IF key = "ArrowUp"
             THEN [p EXCEPT !.selectedIndex =
                     IF p.selectedIndex > 0 THEN p.selectedIndex - 1
                     ELSE p.selectedIndex]
             ELSE IF key = "Enter"
             THEN IF /\ p.selectedIndex >= 0
                     /\ p.selectedIndex < Len(p.modelSearchResults)
                  THEN [HandleModelChange(p,
                            p.modelSearchResults[p.selectedIndex + 1], key)
                          EXCEPT !.isDropdownVisible = FALSE]
                  ELSE p
             ELSE IF key = "Escape"
             THEN [p EXCEPT !.isDropdownVisible = FALSE, !.selectedIndex = -1]
             ELSE p
       IN /\ after.selectedIndex <= Len(p.modelSearchResults) + 1
          /\ picker' \in Rerendered(picker, after)
    /\ UNCHANGED <<handler, call, other, models, requests>>

\* handleKeyDown(event) with event.key = key.
HandleKeyDown(key) ==
    /\ picker.mounted
    /\ LET p == [picker EXCEPT !.event = key]
           after ==
             IF ~p.isDropdownVisible THEN p
             ELSE IF key = "ArrowDown"
             THEN [p EXCEPT !.selectedIndex =
                     IF p.selectedIndex < Len(p.modelSearchResults) - 1
                     THEN p.selectedIndex + 1 ELSE p.selectedIndex]
             ELSE IF key = "ArrowUp"
             THEN [p EXCEPT !.selectedIndex =
                     IF p.selectedIndex > 0 THEN p.selectedIndex - 1
                     ELSE p.selectedIndex]
             ELSE IF key = "Enter"
             THEN IF /\ p.selectedIndex >= 0
                     /\ p.selectedIndex < Len(p.modelSearchResults)
                  THEN [HandleModelChange(p,
                            p.modelSearchResults[p.selectedIndex + 1], key)
                          EXCEPT !.isDropdownVisible = FALSE]
                  ELSE p
             ELSE IF key = "Escape"
             THEN [p EXCEPT !.isDropdownVisible = FALSE, !.selectedIndex = -1]
             ELSE p
       IN picker' \in Rerendered(picker, after)
    /\ UNCHANGED <<handler, call, other, models, requests>>

\* onInput of the search field: the user edits the term to value.
Input(value) ==
    /\ picker.mounted
    /\ value # picker.searchTerm
    /\ LET p == [picker EXCEPT !.event = "input"]
       IN picker' \in Rerendered(picker,
              [HandleModelChange(p, value, "input") EXCEPT !.isDropdownVisible = TRUE])
    /\ UNCHANGED <<handler, call, other, models, requests>>

\* onClick of the clear icon, rendered while the term is not empty.
ClearSearch ==
    /\ picker.mounted
    /\ picker.searchTerm # <<>>
    /\ LET p == [picker EXCEPT !.event = "clear"]
       IN picker' \in Rerendered(picker,
              [HandleModelChange(p, <<>>, "clear") EXCEPT !.isDropdownVisible = TRUE])
    /\ UNCHANGED <<handler, call, other, models, requests>>

\* onFocus of the search field.
Focus ==
    /\ picker.mounted
    /\ picker' = [picker EXCEPT !.event = "focus", !.isDropdownVisible = TRUE]
    /\ UNCHANGED <<handler, call, other, models, requests>>

\* handleClickOutside: a mousedown outside the dropdown wrapper.
ClickOutside ==
    /\ picker.mounted
    /\ picker' = [picker EXCEPT !.event = "mousedown", !.isDropdownVisible = FALSE]
    /\ UNCHANGED <<handler, call, other, models, requests>>

\* onMouseEnter of the item at index of the visible list.
MouseEnter(index) ==
    /\ picker.mounted /\ picker.isDropdownVisible
    /\ index \in 0..(Len(picker.modelSearchResults) - 1)
    /\ picker' = [picker EXCEPT !.event = "mouseenter", !.selectedIndex = index]
    /\ UNCHANGED <<handler, call, other, models, requests>>

\* onClick of the item at index of the visible list.
ClickItem(index) ==
    /\ picker.mounted /\ picker.isDropdownVisible
    /\ index \in 0..(Len(picker.modelSearchResults) - 1)
    /\ LET p == [picker EXCEPT !.event = "click"]
       IN picker' \in Rerendered(picker,
              [HandleModelChange(p, picker.modelSearchResults[index + 1], "click")
                 EXCEPT !.isDropdownVisible = FALSE])
    /\ UNCHANGED <<handler, call, other, models, requests>>

\* The picker under every sequence of its events, on a fixed model list.
PickerNext ==
    \/ \E apiModelId \in ConfiguredModelIds, azureAiModels \in AzureAiModelLists :
          Mount(apiModelId, azureAiModels)
    \/ \E key \in PickerKeys : HandleKeyDown(key)
    \/ \E value \in SearchTerms : Input(value)
    \/ ClearSearch
    \/ Focus
    \/ ClickOutside
    \/ \E index \in 0..(Len(picker.modelSearchResults) - 1) : MouseEnter(index)
    \/ \E index \in 0..(Len(picker.modelSearchResults) - 1) : ClickItem(index)

PickerSpec == Init /\ [][PickerNext]_vars

\* The ids of a result list.
ResultIds(p) == { p.modelSearchResults[i] : i \in DOMAIN p.modelSearchResults }

\* C30 (picker keyboard navigation): a key event on the hidden dropdown
\* changes nothing; on the visible dropdown ArrowDown moves selectedIndex
\* to no index past the last result, ArrowUp keeps an index >= 0 at >= 0
\* and leaves -1, Escape hides the dropdown and sets selectedIndex to -1,
\* Enter changes the model only to the result selectedIndex points at and
\* then hides the dropdown; a changed search term sets selectedIndex to -1;
\* and a model id set by Enter is in the current result list.
PickerNavigation ==
    [][picker.mounted =>
       LET p == picker
           q == picker'
           key == picker'.event
       IN /\ (key \in PickerKeys /\ ~p.isDropdownVisible)
               => q = [p EXCEPT !.event = key]
          /\ (key = "ArrowDown" /\ p.isDropdownVisible)
               => /\ q.selectedIndex \in {p.selectedIndex, p.selectedIndex + 1}
                  /\ q.selectedIndex # p.selectedIndex
                       => q.selectedIndex <= Len(p.modelSearchResults) - 1
          /\ (key = "ArrowUp" /\ p.isDropdownVisible)
               => /\ p.selectedIndex >= 0 => q.selectedIndex >= 0
                  /\ p.selectedIndex = -1 => q.selectedIndex = -1
                  /\ q.selectedIndex \in {p.selectedIndex, p.selectedIndex - 1}
          /\ (key = "Escape" /\ p.isDropdownVisible)
               => ~q.isDropdownVisible /\ q.selectedIndex = -1
          /\ q.searchTerm # p.searchTerm => q.selectedIndex = -1
          /\ (key = "Enter" /\ q.apiModelId # p.apiModelId)
               => /\ p.isDropdownVisible
                  /\ p.selectedIndex \in 0..(Len(p.modelSearchResults) - 1)
                  /\ q.apiModelId = p.modelSearchResults[p.selectedIndex + 1]
                  /\ ~q.isDropdownVisible
          /\ q.changedBy = "Enter" => q.apiModelId \in ResultIds(q)]_vars

\* Enter on the second result of a search set the model and hid the list.
ModelSetByEnter ==
    /\ picker.mounted
    /\ picker.event = "Enter" /\ picker.changedBy = "Enter"
    /\ picker.apiModelId = <<"a", "b">>
    /\ ~picker.isDropdownVisible
    /\ picker.selectedIndex = -1

====
